---------------------------- MODULE Spec2Model ----------------------------
(***************************************************************************)
(* Client-side PDF synthesizer of SummaryReviewPage.jsx: sanitizeAscii,    *)
(* splitIntoLines / wrapParagraphs, escapePdfText, buildContentStream,     *)
(* composePdf and createFallbackPdfBlob.                                   *)
(*                                                                         *)
(* A JavaScript string is modelled as the sequence of its UTF-16 code      *)
(* units (integers 0..65535); the buffer returned by TextEncoder.encode is *)
(* the sequence of its UTF-8 bytes (integers 0..255).  A JavaScript value  *)
(* that may be absent is a record [type, chars].                           *)
(***************************************************************************)
EXTENDS Integers, Sequences, FiniteSets, TLC

VARIABLES
    pc,            \* position of the running call
    value,         \* sanitizeAscii: argument
    sanResult,     \* sanitizeAscii: outcome [threw, ret]
    text,          \* splitIntoLines: argument text
    width,         \* splitIntoLines: argument width
    segments,      \* splitIntoLines: sanitized.split(/\r?\n/) still to visit
    remaining,     \* splitIntoLines: local remaining of the current segment
    lines,         \* splitIntoLines: local lines
    stream,        \* composePdf: argument stream
    summaryText,   \* createFallbackPdfBlob: argument summaryText
    citations,     \* createFallbackPdfBlob: argument citations
    focusAspect,   \* createFallbackPdfBlob: argument focusAspect
    pdfLines,      \* createFallbackPdfBlob: local lines
    contentStream, \* createFallbackPdfBlob: local contentStream
    pdfBytes,      \* composePdf / createFallbackPdfBlob: returned buffer
    calls,         \* number of createFallbackPdfBlob calls made so far
    firstCall,     \* arguments and buffer of the first finished call
    commands,      \* buildContentStream: local commands
    y,             \* buildContentStream: local y
    sessionId,     \* buildFallbackFilename: argument sessionId
    summaryType,   \* buildFallbackFilename: argument summaryType
    filename,      \* buildFallbackFilename: outcome [done, name]
    mounted,       \* SummaryReviewPage: the view is mounted
    fallbackObjectUrlRef, \* SummaryReviewPage: the ref's current (0 is null)
    objectUrls,    \* the object URLs created so far, indexed by handle
    attempts,      \* the calls of the two download handlers
    running        \* the attempt that runs synchronously now (0 is none)

vars == <<pc, value, sanResult, text, width, segments, remaining, lines,
          stream, summaryText, citations, focusAspect, pdfLines,
          contentStream, pdfBytes, calls, firstCall, commands, y,
          sessionId, summaryType, filename, mounted, fallbackObjectUrlRef,
          objectUrls, attempts, running>>

---------------------------------------------------------------------------
(* Bounds of the model *)

MaxSanLen == 3
MaxTextLen == 5
MaxWidth == 3
MaxStreamLen == 3
MaxCalls == 3
MaxArgLen == 2
MaxCitations == 2
MaxLoopLines == 8
MaxLineLen == 2
MaxStreamLines == 2
MaxNameLen == 2
MaxAttempts == 2

---------------------------------------------------------------------------
(* Characters and JavaScript values *)

TAB == 9
LF == 10
CR == 13
SP == 32
QUESTION == 63

\* The printable ASCII characters 0x23..0x5F and 0x61..0x7E in code order.
AsciiUpper == "#$%&'()*+,-./0123456789:;<=>?@ABCDEFGHIJKLMNOPQRSTUVWXYZ[\\]^_"
AsciiLower == "abcdefghijklmnopqrstuvwxyz{|}~"

\* Code unit of a one-character string literal.
CodeOf(ch) ==
    IF ch = "\n" THEN LF
    ELSE IF ch = " " THEN SP
    ELSE IF ch = "!" THEN 33
    ELSE IF \E k \in 35..95 : SubSeq(AsciiUpper, k - 34, k - 34) = ch
         THEN CHOOSE k \in 35..95 : SubSeq(AsciiUpper, k - 34, k - 34) = ch
         ELSE CHOOSE k \in 97..126 : SubSeq(AsciiLower, k - 96, k - 96) = ch

\* The code units of a string literal of the source.
Codes(s) == [i \in 1..Len(s) |-> CodeOf(SubSeq(s, i, i))]

JsString(s) == [type |-> "string", chars |-> s]
JsUndefined == [type |-> "undefined", chars |-> <<>>]
JsNull == [type |-> "null", chars |-> <<>>]

\* JavaScript truthiness of a string-or-absent value.
Truthy(v) == v.type = "string" /\ Len(v.chars) > 0

\* All sequences over S of length at most n.
SeqsUpTo(S, n) == UNION {[1..k -> S] : k \in 0..n}

---------------------------------------------------------------------------
(* sanitizeAscii *)

\* The class with its upper edge one too far (DEL kept).
IsLegalCharDel(c) == c \in {TAB, LF, CR} \/ (c >= 32 /\ c <= 127)

\* Characters outside the class [^\x09\x0A\x0D\x20-\x7E].
IsLegalChar(c) == c \in {TAB, LF, CR} \/ (c >= 32 /\ c <= 126)

SanitizeChar(c) == IF IsLegalChar(c) THEN c ELSE QUESTION

\* value.replace with the global flag: every code unit outside the class
\* becomes one question mark.
SanitizeString(s) == [i \in 1..Len(s) |-> SanitizeChar(s[i])]

\* sanitizeAscii: the default parameter applies to undefined only, and null
\* has no replace method (TypeError).
sanitizeAscii(v) ==
    IF v.type = "undefined" THEN [threw |-> FALSE, ret |-> SanitizeString(<<>>)]
    ELSE IF v.type = "null" THEN [threw |-> TRUE, ret |-> <<>>]
    ELSE [threw |-> FALSE, ret |-> SanitizeString(v.chars)]

---------------------------------------------------------------------------
(* splitIntoLines / wrapParagraphs *)

\* White space of String.prototype.trimEnd and of the regex class \s.
IsWhiteSpace(c) ==
    c \in {9, 10, 11, 12, 13, 32, 160, 5760, 8232, 8233, 8239, 8287, 12288, 65279}
    \/ (c >= 8192 /\ c <= 8202)

\* s.slice(from, to) with 0 <= from and 0 <= to (0-based, end exclusive).
Slice(s, from, to) ==
    LET e == IF to > Len(s) THEN Len(s) ELSE to
    IN  IF from >= e THEN <<>> ELSE SubSeq(s, from + 1, e)

\* s.slice(from)
SliceFrom(s, from) == Slice(s, from, Len(s))

\* s.trimEnd()
TrimEnd(s) ==
    LET keep == {k \in 1..Len(s) : ~IsWhiteSpace(s[k])}
    IN  IF keep = {} THEN <<>>
        ELSE SubSeq(s, 1, CHOOSE k \in keep : \A j \in keep : j <= k)

\* The first character removed whatever it is.
StripLeadingOne(s) == SliceFrom(s, 1)

\* s.replace(/^\s+/, '')
StripLeadingSpace(s) ==
    LET keep == {k \in 1..Len(s) : ~IsWhiteSpace(s[k])}
    IN  IF keep = {} THEN <<>>
        ELSE SubSeq(s, CHOOSE k \in keep : \A j \in keep : k <= j, Len(s))

\* The string left as it is.
TrimNone(s) == s

\* s.trim()
Trim(s) == StripLeadingSpace(TrimEnd(s))

\* s.lastIndexOf(ch, fromIndex) for a one-character search string: the largest
\* 0-based index at most fromIndex holding ch, or -1.
LastIndexOf(s, ch, fromIndex) ==
    LET hits == {k \in 0..(Len(s) - 1) : k <= fromIndex /\ s[k + 1] = ch}
    IN  IF hits = {} THEN -1
        ELSE CHOOSE k \in hits : \A j \in hits : j <= k

\* A split that leaves out the empty pieces.
RECURSIVE SplitLinesDropEmpty(_)
SplitLinesDropEmpty(s) ==
    LET feeds == {k \in 1..Len(s) : s[k] = LF}
    IN  IF feeds = {} THEN (IF Len(s) = 0 THEN <<>> ELSE <<s>>)
        ELSE LET i == CHOOSE k \in feeds : \A j \in feeds : k <= j
                 piece == SubSeq(s, 1, i - 1)
                 seg == IF Len(piece) > 0 /\ piece[Len(piece)] = CR
                        THEN SubSeq(piece, 1, Len(piece) - 1)
                        ELSE piece
             IN  (IF Len(seg) = 0 THEN <<>> ELSE <<seg>>)
                     \o SplitLinesDropEmpty(SubSeq(s, i + 1, Len(s)))

\* s.split(/\r?\n/): the pieces between line feeds, a carriage return right
\* before a line feed belonging to the separator.
RECURSIVE SplitLines(_)
SplitLines(s) ==
    LET feeds == {k \in 1..Len(s) : s[k] = LF}
    IN  IF feeds = {} THEN <<s>>
        ELSE LET i == CHOOSE k \in feeds : \A j \in feeds : k <= j
                 piece == SubSeq(s, 1, i - 1)
                 seg == IF Len(piece) > 0 /\ piece[Len(piece)] = CR
                        THEN SubSeq(piece, 1, Len(piece) - 1)
                        ELSE piece
             IN  <<seg>> \o SplitLines(SubSeq(s, i + 1, Len(s)))

\* The search for a space stopping one index short of the width.
SplitIndexShort(rem, w) ==
    LET found == LastIndexOf(rem, SP, w - 1)
    IN  IF found <= 0 THEN w ELSE found

\* The forced break placed one character past the width.
SplitIndexPastWidth(rem, w) ==
    LET found == LastIndexOf(rem, SP, w)
    IN  IF found <= 0 THEN w + 1 ELSE found

\* splitIndex of one loop iteration (lines 134-137).
SplitIndex(rem, w) ==
    LET found == LastIndexOf(rem, SP, w)
    IN  IF found <= 0 THEN w ELSE found

\* An iteration that keeps the white space at the start of the remainder.
BreakStepKeepSpace(rem, w) ==
    [line |-> TrimEnd(Slice(rem, 0, SplitIndex(rem, w))),
     rest |-> SliceFrom(rem, SplitIndex(rem, w))]

\* One iteration of the while loop (lines 134-139): the line pushed and the
\* new value of remaining.
BreakStep(rem, w) ==
    [line |-> TrimEnd(Slice(rem, 0, SplitIndex(rem, w))),
     rest |-> StripLeadingSpace(SliceFrom(rem, SplitIndex(rem, w)))]

\* The early return for a falsy text without its single empty line.
EmptyTextLinesNone == <<>>

\* The early return for a falsy text (lines 121-123).
EmptyTextLines == << <<>> >>

\* The rest of the while loop for one trimmed segment (lines 133-143).
RECURSIVE WrapSegment(_, _)
WrapSegment(rem, w) ==
    IF Len(rem) > w
    THEN <<BreakStep(rem, w).line>> \o WrapSegment(BreakStep(rem, w).rest, w)
    ELSE IF Len(rem) > 0 THEN <<rem>> ELSE <<>>

\* The forEach callback for one segment (lines 127-143).
SegmentLines(segment, w) ==
    IF Len(TrimEnd(segment)) = 0 THEN << <<>> >>
    ELSE WrapSegment(TrimEnd(segment), w)

RECURSIVE ConcatLines(_, _)
ConcatLines(segs, w) ==
    IF segs = <<>> THEN <<>>
    ELSE SegmentLines(Head(segs), w) \o ConcatLines(Tail(segs), w)

\* splitIntoLines(text, width) as one function (lines 120-149).
splitIntoLines(t, w) ==
    IF ~Truthy(t) THEN EmptyTextLines
    ELSE LET ls == ConcatLines(SplitLines(sanitizeAscii(t).ret), w)
         IN  IF Len(ls) = 0 THEN << <<>> >> ELSE ls

DefaultWidth == 90

\* wrapParagraphs(text) with the default width (line 151).
wrapParagraphs(t) == splitIntoLines(t, DefaultWidth)

---------------------------------------------------------------------------
(* escapePdfText and buildContentStream *)

\* Concatenation of the strings parts[lo], ..., parts[hi].
RECURSIVE FlattenRange(_, _, _)
FlattenRange(parts, lo, hi) ==
    IF lo > hi THEN <<>>
    ELSE IF lo = hi THEN parts[lo]
    ELSE LET mid == (lo + hi) \div 2
         IN  FlattenRange(parts, lo, mid) \o FlattenRange(parts, mid + 1, hi)

\* Concatenation of a sequence of strings.
Flatten(parts) == FlattenRange(parts, 1, Len(parts))

BACKSLASH == 92
LPAREN == 40
RPAREN == 41

\* s.replace(/c/g, repl) for a single character c.
ReplaceChar(s, c, repl) ==
    LET piece(i) == IF s[i] = c THEN repl ELSE <<s[i]>>
    IN  Flatten([j \in 1..(Len(s)) |-> piece(j)])

\* A replacement that leaves the line breaks in place.
ReplaceNewlinesNone(s, repl) == s

\* s.replace(/\r?\n/g, repl)
ReplaceNewlines(s, repl) ==
    LET piece(i) ==
            IF s[i] = LF THEN repl
            ELSE IF s[i] = CR /\ i < Len(s) /\ s[i + 1] = LF THEN <<>>
            ELSE <<s[i]>>
    IN  Flatten([j \in 1..(Len(s)) |-> piece(j)])

\* The four replacements with the backslash replaced last, after the escapes
\* of the other characters were written.
escapePdfTextBackslashLast(s) ==
    IF Len(s) = 0 THEN <<>>
    ELSE ReplaceChar(
             ReplaceNewlines(
                 ReplaceChar(
                     ReplaceChar(s, LPAREN, <<BACKSLASH, LPAREN>>),
                     RPAREN, <<BACKSLASH, RPAREN>>),
                 <<BACKSLASH, 110>>),
             BACKSLASH, <<BACKSLASH, BACKSLASH>>)

\* escapePdfText (lines 93-98) on a string; the empty string is falsy.
escapePdfText(s) ==
    IF Len(s) = 0 THEN <<>>
    ELSE ReplaceNewlines(
             ReplaceChar(
                 ReplaceChar(
                     ReplaceChar(s, BACKSLASH, <<BACKSLASH, BACKSLASH>>),
                     LPAREN, <<BACKSLASH, LPAREN>>),
                 RPAREN, <<BACKSLASH, RPAREN>>),
             <<BACKSLASH, 110>>)

\* Number.prototype.toString() of a non-negative integer.
RECURSIVE ToDigits(_)
ToDigits(n) ==
    IF n < 10 THEN <<48 + n>>
    ELSE Append(ToDigits(n \div 10), 48 + (n % 10))

\* The digits left as they are, whatever their number.
PadStartNone(s, len) == s

\* s.padStart(len, '0')
PadStartZero(s, len) ==
    IF Len(s) >= len THEN s
    ELSE [i \in 1..(len - Len(s)) |-> 48] \o s

\* parts.join('\n')
JoinLines(parts) ==
    LET piece(i) == IF i = 1 THEN parts[i] ELSE <<LF>> \o parts[i]
    IN  Flatten([j \in 1..(Len(parts)) |-> piece(j)])

TopY == 760
LineHeight == 14
BottomY == 60

\* The reset taken already when the cursor reaches the bottom margin.
NextYInclusive(cur) ==
    IF cur - LineHeight <= BottomY THEN TopY ELSE cur - LineHeight

\* y after one more line (lines 184-187).
NextY(cur) == IF cur - LineHeight < BottomY THEN TopY ELSE cur - LineHeight

\* y before the line of 1-based index i.
RECURSIVE CursorAt(_)
CursorAt(i) == IF i = 1 THEN TopY ELSE NextY(CursorAt(i - 1))

\* The string literals of buildContentStream (lines 179-189).
BeginText == Codes("BT")
FontSelector == Codes("/F1 12 Tf")
TmHead == Codes("1 0 0 1 50 ")
TmEnd == Codes(" Tm (")
TjEnd == Codes(") Tj")
EndText == Codes("ET")

\* The command pushed for one line (line 183).
LineCommand(line, cur) ==
    TmHead \o ToDigits(cur) \o TmEnd
        \o escapePdfText(line) \o TjEnd

\* buildContentStream (lines 178-191).
buildContentStream(ls) ==
    LET cmds == <<BeginText, FontSelector>>
                    \o [i \in 1..Len(ls) |-> LineCommand(ls[i], CursorAt(i))]
                    \o <<EndText>>
    IN  JoinLines(cmds) \o <<LF>>

---------------------------------------------------------------------------
(* composePdf *)

IsHighSurrogate(c) == c >= 55296 /\ c <= 56319
IsLowSurrogate(c) == c >= 56320 /\ c <= 57343

\* UTF-8 bytes of the code point cp.
Utf8Bytes(cp) ==
    IF cp < 128 THEN <<cp>>
    ELSE IF cp < 2048 THEN <<192 + (cp \div 64), 128 + (cp % 64)>>
    ELSE IF cp < 65536
         THEN <<224 + (cp \div 4096), 128 + ((cp \div 64) % 64), 128 + (cp % 64)>>
    ELSE <<240 + (cp \div 262144), 128 + ((cp \div 4096) % 64),
           128 + ((cp \div 64) % 64), 128 + (cp % 64)>>

\* TextEncoder.encode(s): UTF-8, a surrogate pair being one code point and a
\* lone surrogate being written as U+FFFD.
EncodeUtf8(s) ==
    LET piece(i) ==
            IF IsHighSurrogate(s[i])
            THEN IF i < Len(s) /\ IsLowSurrogate(s[i + 1])
                 THEN Utf8Bytes(65536 + (s[i] - 55296) * 1024 + (s[i + 1] - 56320))
                 ELSE Utf8Bytes(65533)
            ELSE IF IsLowSurrogate(s[i])
            THEN IF i > 1 /\ IsHighSurrogate(s[i - 1])
                 THEN <<>>
                 ELSE Utf8Bytes(65533)
            ELSE Utf8Bytes(s[i])
    IN  Flatten([j \in 1..(Len(s)) |-> piece(j)])

\* The string literals of composePdf (lines 200-227).
CatalogObject ==
    Codes("1 0 obj << /Type /Catalog /Pages 2 0 R >> endobj")
PagesObject ==
    Codes("2 0 obj << /Type /Pages /Count 1 /Kids [3 0 R] >> endobj")

\* The page with the catalog named as its parent.
PageObjectBadParent ==
    Codes("3 0 obj << /Type /Page /Parent 1 0 R /MediaBox [0 0 612 792] /Resources << /Font << /F1 4 0 R >> >> /Contents 5 0 R >> endobj")

PageObject ==
    Codes("3 0 obj << /Type /Page /Parent 2 0 R /MediaBox [0 0 612 792] /Resources << /Font << /F1 4 0 R >> >> /Contents 5 0 R >> endobj")

FontObject ==
    Codes("4 0 obj << /Type /Font /Subtype /Type1 /BaseFont /Helvetica >> endobj")
StreamObjectHead ==
    Codes("5 0 obj << /Length ")
StreamKeyword ==
    Codes(" >> stream\n")
StreamObjectEnd ==
    Codes("endstream endobj")
XrefEntryEnd ==
    Codes(" 00000 n \n")
XrefHead ==
    Codes("xref\n0 ")
XrefFreeEntry ==
    Codes("0000000000 65535 f \n")
TrailerKeyword ==
    Codes("trailer\n")
TrailerHead ==
    Codes("<< /Size ")
TrailerEnd ==
    Codes(" /Root 1 0 R >>\n")
StartXrefKeyword ==
    Codes("startxref\n")
EofMarker ==
    Codes("\n%%EOF")

\* addObject (lines 196-198): the object text ends with a line feed.
AddObject(obj) ==
    IF Len(obj) > 0 /\ obj[Len(obj)] = LF THEN obj ELSE Append(obj, LF)

\* The /Length value taken from the length of the string.
StreamLengthInUnits(st) == Len(st)

\* streamBytes.length (line 207).
StreamLength(st) == Len(EncodeUtf8(st))

\* The objects array after the five addObject calls (lines 200-208).
Objects(st) ==
    <<AddObject(CatalogObject),
      AddObject(PagesObject),
      AddObject(PageObject),
      AddObject(FontObject),
      AddObject(StreamObjectHead \o ToDigits(StreamLength(st))
                    \o StreamKeyword \o st \o StreamObjectEnd)>>

PdfHeader == Codes("%PDF-1.4\n")

\* The cursor advanced by the length of the object and of its separator.
CursorAfterPlusOne(cursor, obj) == cursor + Len(obj) + 1

\* cursor += obj.length (line 216).
CursorAfter(cursor, obj) == cursor + Len(obj)

\* The offsets array after the forEach (lines 211-217), 1-based: offsets[1] is
\* the entry 0 of the source.
RECURSIVE OffsetsFrom(_, _, _)
OffsetsFrom(objs, k, cursor) ==
    IF k > Len(objs) THEN <<>>
    ELSE <<cursor>> \o OffsetsFrom(objs, k + 1, CursorAfter(cursor, objs[k]))

Offsets(objs) == <<0>> \o OffsetsFrom(objs, 1, Len(PdfHeader))

\* pdf after the forEach (lines 210-217).
PdfBody(objs) ==
    LET piece(i) == objs[i]
    IN  PdfHeader \o Flatten([j \in 1..(Len(objs)) |-> piece(j)])

\* The value of xrefOffset taken before the last object is appended.
XrefOffsetEarly(objs) == Len(PdfBody(objs)) - Len(objs[Len(objs)])

\* xrefOffset = pdf.length (line 219).
XrefOffset(objs) == Len(PdfBody(objs))

\* The cross-reference section, the trailer and the end marker (220-227).
PdfTail(objs) ==
    LET offsets == Offsets(objs)
        entry(i) == PadStartZero(ToDigits(offsets[i + 1]), 10) \o XrefEntryEnd
    IN  XrefHead \o ToDigits(Len(objs) + 1) \o <<LF>>
            \o XrefFreeEntry
            \o Flatten([j \in 1..(Len(offsets) - 1) |-> entry(j)])
            \o TrailerKeyword
            \o TrailerHead \o ToDigits(Len(objs) + 1) \o TrailerEnd
            \o StartXrefKeyword \o ToDigits(XrefOffset(objs)) \o EofMarker

\* composePdf (lines 193-230).
composePdf(st) ==
    LET objects == Objects(st)
    IN  EncodeUtf8(PdfBody(objects) \o PdfTail(objects))

---------------------------------------------------------------------------
(* createFallbackPdfBlob *)

\* The string literals of createFallbackPdfBlob (lines 234-244).
FocusHeader == Codes("Summary - Focus: ")
DefaultHeader == Codes("Summary")
ReferencesHeading == Codes("References:")
NumberSeparator == Codes(". ")

\* The array taken without the filter.
CitationListAll(c) ==
    IF c.isArray THEN c.items ELSE <<>>

\* citations.filter(Boolean) of an array, [] for anything else (line 239).
CitationList(c) ==
    IF c.isArray THEN SelectSeq(c.items, Truthy) ELSE <<>>

\* The header without the sanitizer (the raw focus label).
HeaderLineRaw(focus) ==
    IF Truthy(focus) THEN FocusHeader \o focus.chars
    ELSE DefaultHeader

\* The header line (line 234).
HeaderLine(focus) ==
    IF Truthy(focus) THEN FocusHeader \o sanitizeAscii(focus).ret
    ELSE DefaultHeader

\* The lines of the numbered citations (lines 243-245).
CitationLines(list) ==
    LET piece(k) == wrapParagraphs(
                        JsString(ToDigits(k) \o NumberSeparator \o list[k].chars))
    IN  Flatten([j \in 1..(Len(list)) |-> piece(j)])

\* A line list that starts from what the previous call left.
KeptLines(prev) == prev

\* const lines = [] (line 233); prev is what an earlier call left behind.
FreshLines(prev) == <<>>

\* The list without the empty line pushed after the header.
ExportLinesNoSeparator(prev, summary, cites, focus) ==
    FreshLines(prev)
        \o <<HeaderLine(focus)>>
        \o wrapParagraphs(summary)
        \o (IF Len(CitationList(cites)) > 0
            THEN << <<>>, ReferencesHeading>> \o CitationLines(CitationList(cites))
            ELSE <<>>)

\* The list lines handed to buildContentStream (lines 233-246).
ExportLines(prev, summary, cites, focus) ==
    FreshLines(prev)
        \o <<HeaderLine(focus), <<>>>>
        \o wrapParagraphs(summary)
        \o (IF Len(CitationList(cites)) > 0
            THEN << <<>>, ReferencesHeading>> \o CitationLines(CitationList(cites))
            ELSE <<>>)

---------------------------------------------------------------------------
(* buildFallbackFilename *)

UNDERSCORE == 95

SummaryStem == Codes("summary")
GenericStem == Codes("summary_export")
PdfSuffix == Codes(".pdf")

\* s.replace(/\s+/g, '_'): one underscore for each run of white space.
ReplaceSpaceRuns(s) ==
    LET piece(i) ==
            IF ~IsWhiteSpace(s[i]) THEN <<s[i]>>
            ELSE IF i > 1 /\ IsWhiteSpace(s[i - 1]) THEN <<>>
            ELSE <<UNDERSCORE>>
    IN  Flatten([j \in 1..(Len(s)) |-> piece(j)])

\* The class [A-Za-z0-9_\-] of line 264.
IsNameChar(c) ==
    \/ (c >= 65 /\ c <= 90)
    \/ (c >= 97 /\ c <= 122)
    \/ (c >= 48 /\ c <= 57)
    \/ c = UNDERSCORE
    \/ c = 45

\* s.replace(/[^A-Za-z0-9_\-]/g, '_')
ReplaceIllegal(s) ==
    [i \in 1..Len(s) |-> IF IsNameChar(s[i]) THEN s[i] ELSE UNDERSCORE]

\* parts.join('_')
JoinUnderscore(parts) ==
    LET piece(i) == IF i = 1 THEN parts[i] ELSE <<UNDERSCORE>> \o parts[i]
    IN  Flatten([j \in 1..(Len(parts)) |-> piece(j)])

\* The array pieces (lines 254-263).
NamePieces(sid, type, focus) ==
    <<SummaryStem>>
        \o (IF Truthy(sid) THEN <<sid.chars>> ELSE <<>>)
        \o (IF Truthy(type) THEN <<type.chars>> ELSE <<>>)
        \o (IF Truthy(focus)
            THEN <<Slice(ReplaceSpaceRuns(focus.chars), 0, 40)>>
            ELSE <<>>)

\* buildFallbackFilename (lines 253-266).
buildFallbackFilename(sid, type, focus) ==
    LET joined == ReplaceIllegal(JoinUnderscore(NamePieces(sid, type, focus)))
    IN  (IF Len(joined) = 0 THEN GenericStem ELSE joined) \o PdfSuffix

---------------------------------------------------------------------------
(* Variables of the calls that are not running *)

NoResult == [threw |-> FALSE, ret |-> <<>>]
NoCall == [done |-> FALSE, args |-> <<>>, bytes |-> <<>>]

SanIdle == value = JsUndefined /\ sanResult = NoResult

WrapIdle ==
    /\ text = JsUndefined
    /\ width = 0
    /\ segments = <<>>
    /\ remaining = <<>>
    /\ lines = <<>>

ExportIdle ==
    /\ summaryText = JsUndefined
    /\ citations = [isArray |-> FALSE, items |-> <<>>]
    /\ focusAspect = JsUndefined
    /\ pdfLines = <<>>
    /\ contentStream = <<>>
    /\ calls = 0
    /\ firstCall = NoCall

StreamIdle == commands = <<>> /\ y = 0

NoName == [done |-> FALSE, name |-> <<>>]

NameIdle ==
    /\ sessionId = JsUndefined
    /\ summaryType = JsUndefined
    /\ filename = NoName

\* The mounted view before any click (line 338: useRef(null)).
ViewIdle ==
    /\ mounted = TRUE
    /\ fallbackObjectUrlRef = 0
    /\ objectUrls = <<>>
    /\ attempts = <<>>
    /\ running = 0

sanVars == <<value, sanResult>>
viewVars == <<mounted, fallbackObjectUrlRef, objectUrls, attempts, running>>
streamVars == <<commands, y>>
nameVars == <<sessionId, summaryType, filename>>
wrapVars == <<text, width, segments, remaining, lines>>
exportVars == <<summaryText, citations, focusAspect, pdfLines, contentStream,
                calls, firstCall>>

---------------------------------------------------------------------------
(* Specification of one sanitizeAscii call *)

\* Code units at the edges of the legal class, two BMP characters outside
\* ASCII and the surrogate pair of U+1F600.
SanChars == {TAB, LF, CR, 31, SP, 65, 126, 127, 233, 20013, 55357, 56832}

SanInputs ==
    {JsUndefined, JsNull} \cup {JsString(s) : s \in SeqsUpTo(SanChars, MaxSanLen)}

InitSanitize ==
    /\ pc = "sanitize"
    /\ value \in SanInputs
    /\ sanResult = NoResult
    /\ WrapIdle
    /\ ExportIdle
    /\ stream = <<>>
    /\ pdfBytes = <<>>
    /\ StreamIdle
    /\ ViewIdle
    /\ NameIdle

SanitizeCall ==
    /\ pc = "sanitize"
    /\ sanResult' = sanitizeAscii(value)
    /\ pc' = "sanitized"
    /\ UNCHANGED <<value, wrapVars, exportVars, stream, pdfBytes, streamVars,
                   nameVars, viewVars>>

NextSanitize == SanitizeCall

SpecSanitize == InitSanitize /\ [][NextSanitize]_vars

---------------------------------------------------------------------------
(* Specification of one composePdf call *)

\* Characters of one, two and three UTF-8 bytes, a surrogate pair, and the
\* characters the stream syntax uses.
StreamChars == {65, LF, 233, 20013, 55357, 56832}

StreamInputs ==
    SeqsUpTo(StreamChars, MaxStreamLen)
        \cup {buildContentStream(<<s>>) : s \in SeqsUpTo({65, LPAREN}, 1)}
        \cup {Codes("endstream endobj\n"), Codes("stream\n")}

InitCompose ==
    /\ pc = "compose"
    /\ stream \in StreamInputs
    /\ pdfBytes = <<>>
    /\ SanIdle
    /\ WrapIdle
    /\ ExportIdle
    /\ StreamIdle
    /\ ViewIdle
    /\ NameIdle

ComposeCall ==
    /\ pc = "compose"
    /\ pdfBytes' = composePdf(stream)
    /\ pc' = "composed"
    /\ UNCHANGED <<stream, sanVars, wrapVars, exportVars, streamVars, nameVars,
                   viewVars>>

NextCompose == ComposeCall

SpecCompose == InitCompose /\ [][NextCompose]_vars

---------------------------------------------------------------------------
(* Specification of createFallbackPdfBlob calls *)

ArgChars == {65, LPAREN, LF, 233}

\* A text longer than the default width: 31 times the four characters "A A ".
LongText ==
    LET piece(i) == <<65, SP, 65, SP>>
    IN  Flatten([j \in 1..(31) |-> piece(j)])

SummaryTexts ==
    {JsUndefined, JsString(LongText)}
        \cup {JsString(s) : s \in SeqsUpTo(ArgChars, MaxArgLen)}

CitationItems == {JsNull, JsString(<<>>), JsString(<<66>>), JsString(<<233, RPAREN>>)}

CitationArgs ==
    {[isArray |-> FALSE, items |-> <<>>]}
        \cup {[isArray |-> TRUE, items |-> c] : c \in SeqsUpTo(CitationItems, MaxCitations)}

FocusArgs == {JsUndefined, JsString(<<109>>), JsString(<<233, LF>>)}

exportLocals == <<pdfLines, contentStream, pdfBytes>>
exportRest == <<sanVars, wrapVars, stream, streamVars, nameVars, viewVars>>

\* One call, its arguments drawn at the start.
InitExport ==
    /\ pc = "lines"
    /\ summaryText \in SummaryTexts
    /\ citations \in CitationArgs
    /\ focusAspect \in FocusArgs
    /\ pdfLines = <<>>
    /\ contentStream = <<>>
    /\ pdfBytes = <<>>
    /\ calls = 0
    /\ firstCall = NoCall
    /\ SanIdle
    /\ WrapIdle
    /\ stream = <<>>
    /\ StreamIdle
    /\ ViewIdle
    /\ NameIdle

\* Lines 233-246: the list lines.
BuildLines ==
    /\ pc = "lines"
    /\ pdfLines' = ExportLines(pdfLines, summaryText, citations, focusAspect)
    /\ pc' = "stream"
    /\ UNCHANGED <<summaryText, citations, focusAspect, contentStream, pdfBytes,
                   calls, firstCall, exportRest>>

\* Line 248.
BuildStream ==
    /\ pc = "stream"
    /\ contentStream' = buildContentStream(pdfLines)
    /\ pc' = "pdf"
    /\ UNCHANGED <<summaryText, citations, focusAspect, pdfLines, pdfBytes,
                   calls, firstCall, exportRest>>

\* Line 249.
ComposeBytes ==
    /\ pc = "pdf"
    /\ pdfBytes' = composePdf(contentStream)
    /\ pc' = "blob"
    /\ UNCHANGED <<summaryText, citations, focusAspect, pdfLines, contentStream,
                   calls, firstCall, exportRest>>

\* Line 250: the blob is returned; the first finished call is remembered.
ReturnBlob ==
    /\ pc = "blob"
    /\ firstCall' = IF firstCall.done THEN firstCall
                    ELSE [done |-> TRUE,
                          args |-> <<summaryText, citations, focusAspect>>,
                          bytes |-> pdfBytes]
    /\ calls' = calls + 1
    /\ pc' = "idle"
    /\ UNCHANGED <<summaryText, citations, focusAspect, exportLocals, exportRest>>

NextExport ==
    \/ BuildLines
    \/ BuildStream
    \/ ComposeBytes
    \/ ReturnBlob

SpecExport == InitExport /\ [][NextExport]_vars

\* Arguments of the repeated calls.
RepeatTexts == {JsString(<<>>), JsString(<<65>>), JsString(<<65, LF, 233>>)}
RepeatCitations ==
    {[isArray |-> TRUE, items |-> c] :
        c \in {<<>>, <<JsString(<<66>>)>>, <<JsString(<<>>), JsString(<<66>>)>>}}
RepeatFocus == {JsUndefined, JsString(<<109>>)}

InitRepeat ==
    /\ pc = "idle"
    /\ summaryText = JsUndefined
    /\ citations = [isArray |-> FALSE, items |-> <<>>]
    /\ focusAspect = JsUndefined
    /\ pdfLines = <<>>
    /\ contentStream = <<>>
    /\ pdfBytes = <<>>
    /\ calls = 0
    /\ firstCall = NoCall
    /\ SanIdle
    /\ WrapIdle
    /\ stream = <<>>
    /\ StreamIdle
    /\ ViewIdle
    /\ NameIdle

\* A caller invokes createFallbackPdfBlob with some arguments (line 232).
CallExport ==
    /\ pc = "idle"
    /\ calls < MaxCalls
    /\ summaryText' \in RepeatTexts
    /\ citations' \in RepeatCitations
    /\ focusAspect' \in RepeatFocus
    /\ pc' = "lines"
    /\ UNCHANGED <<exportLocals, calls, firstCall, exportRest>>

NextRepeat ==
    \/ CallExport
    \/ BuildLines
    \/ BuildStream
    \/ ComposeBytes
    \/ ReturnBlob

SpecRepeat == InitRepeat /\ [][NextRepeat]_vars

Spec == SpecExport

---------------------------------------------------------------------------
(* Reading a buffer back, for the claims about composePdf *)

\* Does buf hold the bytes pat from the 0-based offset off on?
HoldsAt(buf, off, pat) ==
    /\ off >= 0
    /\ off + Len(pat) <= Len(buf)
    /\ \A j \in 1..Len(pat) : buf[off + j] = pat[j]

\* 0-based offset of the last occurrence of pat in buf, or -1.
LastOffsetOf(buf, pat) ==
    LET hits == {k \in 0..(Len(buf) - Len(pat)) : HoldsAt(buf, k, pat)}
    IN  IF hits = {} THEN -1 ELSE CHOOSE k \in hits : \A j \in hits : j <= k

IsDigit(b) == b >= 48 /\ b <= 57

\* Number of decimal digits that buf holds from the 0-based offset off on.
DigitRun(buf, off) ==
    LET stops == {k \in off..Len(buf) : k = Len(buf) \/ ~IsDigit(buf[k + 1])}
    IN  (CHOOSE k \in stops : \A j \in stops : k <= j) - off

\* The decimal number written in the n bytes from offset off on.
RECURSIVE ReadNumber(_, _, _)
ReadNumber(buf, off, n) ==
    IF n = 0 THEN 0
    ELSE 10 * ReadNumber(buf, off, n - 1) + (buf[off + n] - 48)

\* Offset of the keyword xref that opens the cross-reference section: the last
\* one that starts a line.
XrefSectionOffset(buf) == LastOffsetOf(buf, <<10, 120, 114, 101, 102, 10>>) + 1

\* The offset recorded in the in-use entry of object i: the section starts
\* with the line "xref", the line "0 6" and the 20-byte free entry, and every
\* entry is 20 bytes long.
XrefEntryOffset(buf, i) ==
    ReadNumber(buf, XrefSectionOffset(buf) + 9 + 20 * i, 10)

\* The bytes "i 0 obj" that open object i.
ObjectStart(i) == <<48 + i, 32, 48, 32, 111, 98, 106>>

\* C1: each in-use cross-reference entry i = 1..5 of the returned buffer
\* records the byte offset at which "i 0 obj" begins in that buffer.
C1_XrefOffsets ==
    pc = "blob"
        => \A i \in 1..5 :
              HoldsAt(pdfBytes, XrefEntryOffset(pdfBytes, i), ObjectStart(i))

\* A returned document whose text wrapped and whose citation was replaced.
C1_Witness ==
    /\ pc = "blob"
    /\ summaryText = JsString(LongText)
    /\ citations = [isArray |-> TRUE, items |-> <<JsString(<<233, 41>>)>>]
    /\ XrefEntryOffset(pdfBytes, 5) > XrefEntryOffset(pdfBytes, 4)
    /\ HoldsAt(pdfBytes, XrefEntryOffset(pdfBytes, 5), ObjectStart(5))

\* Offset just after the stream keyword and its line feed in object 5.
PayloadStart(buf) ==
    LET head == XrefEntryOffset(buf, 5) + 19
    IN  head + DigitRun(buf, head) + 11

\* Offset of the endstream keyword that closes object 5: the object is the
\* last one, so its closing "endstream endobj" line ends where xref begins.
PayloadEnd(buf) == XrefSectionOffset(buf) - 17

\* The number written after /Length in object 5.
LengthValue(buf) ==
    LET head == XrefEntryOffset(buf, 5) + 19
    IN  ReadNumber(buf, head, DigitRun(buf, head))

\* C2: in the buffer composed for any stream, object 5 is "5 0 obj << /Length
\* N >> stream", the payload and "endstream endobj", and N is the number of
\* bytes between the two markers.
C2_StreamLength ==
    pc = "composed"
        => /\ HoldsAt(pdfBytes, XrefEntryOffset(pdfBytes, 5),
                      <<53, 32, 48, 32, 111, 98, 106, 32, 60, 60, 32, 47, 76,
                        101, 110, 103, 116, 104, 32>>)
           /\ HoldsAt(pdfBytes, PayloadStart(pdfBytes) - 11,
                      <<32, 62, 62, 32, 115, 116, 114, 101, 97, 109, 10>>)
           /\ HoldsAt(pdfBytes, PayloadEnd(pdfBytes),
                      <<101, 110, 100, 115, 116, 114, 101, 97, 109, 32,
                        101, 110, 100, 111, 98, 106, 10>>)
           /\ LengthValue(pdfBytes) = PayloadEnd(pdfBytes) - PayloadStart(pdfBytes)

\* A composed stream of three characters that take 1, 2 and 3 bytes.
C2_Witness ==
    /\ pc = "composed"
    /\ stream = <<65, 233, 20013>>
    /\ LengthValue(pdfBytes) = 6
    /\ PayloadEnd(pdfBytes) - PayloadStart(pdfBytes) = 6

\* The number written on the line after the last startxref line.
StartXrefValue(buf) ==
    LET off == LastOffsetOf(buf, <<115, 116, 97, 114, 116, 120, 114, 101, 102, 10>>) + 10
    IN  ReadNumber(buf, off, DigitRun(buf, off))

\* C3: the number after startxref is the byte offset at which the keyword xref
\* of the cross-reference section begins, and the buffer ends with %%EOF.
C3_StartXref ==
    pc = "blob"
        => /\ LastOffsetOf(pdfBytes, <<115, 116, 97, 114, 116, 120, 114, 101, 102, 10>>) > 0
           /\ StartXrefValue(pdfBytes) = XrefSectionOffset(pdfBytes)
           /\ HoldsAt(pdfBytes, StartXrefValue(pdfBytes), <<120, 114, 101, 102, 10>>)
           /\ HoldsAt(pdfBytes, Len(pdfBytes) - 5, <<37, 37, 69, 79, 70>>)

\* A returned document whose focus label and summary held characters outside
\* ASCII.
C3_Witness ==
    /\ pc = "blob"
    /\ summaryText = JsString(<<233, 10>>)
    /\ focusAspect = JsString(<<233, 10>>)
    /\ StartXrefValue(pdfBytes) = XrefSectionOffset(pdfBytes)
    /\ StartXrefValue(pdfBytes) > 400

\* C4: a call with the arguments of the first finished call returns the bytes
\* that call returned, whatever calls were made in between.
C4_SameArgsSameBytes ==
    (pc = "blob" /\ firstCall.done
        /\ firstCall.args = <<summaryText, citations, focusAspect>>)
        => pdfBytes = firstCall.bytes

\* The third call has composed its document from the arguments of the first.
C4_Witness ==
    /\ pc = "blob"
    /\ calls = 2
    /\ firstCall.done
    /\ firstCall.args = <<summaryText, citations, focusAspect>>
    /\ citations.items # <<>>
    /\ Len(pdfBytes) > 400
    /\ pdfBytes = firstCall.bytes

---------------------------------------------------------------------------
(* Claims about sanitizeAscii, checked under SpecSanitize *)

\* Tab, line feed, carriage return and printable ASCII 0x20..0x7E.
LegalSet == {9, 10, 13} \cup (32..126)

\* Number of Unicode code points of a UTF-16 string: a high surrogate followed
\* by a low surrogate is one code point.
CodePointCount(s) ==
    Len(s) - Cardinality({i \in 2..Len(s) :
                             IsLowSurrogate(s[i]) /\ IsHighSurrogate(s[i - 1])})

\* C5 as stated: every code point that is not legal is replaced by exactly one
\* question mark and every legal character is kept, so the output has one
\* character per code point of the input.
C5_OnePerCodePoint ==
    (pc = "sanitized" /\ value.type = "string")
        => Len(sanResult.ret) = CodePointCount(value.chars)

\* C5 amended: the output has the length of the input in UTF-16 code units and,
\* position by position, a legal code unit is kept and any other code unit is
\* replaced by one question mark (a code point outside the BMP gives two);
\* the output holds legal characters only and a legal input is returned as is.
C5_OnePerCodeUnit ==
    (pc = "sanitized" /\ value.type = "string")
        => /\ ~sanResult.threw
           /\ Len(sanResult.ret) = Len(value.chars)
           /\ \A i \in 1..Len(value.chars) :
                 sanResult.ret[i] = IF value.chars[i] \in LegalSet
                                    THEN value.chars[i] ELSE 63
           /\ \A i \in 1..Len(sanResult.ret) : sanResult.ret[i] \in LegalSet
           /\ ((\A i \in 1..Len(value.chars) : value.chars[i] \in LegalSet)
                  => sanResult.ret = value.chars)

\* A sanitized string with a legal character and a surrogate pair.
C5_Witness ==
    /\ pc = "sanitized"
    /\ value = JsString(<<65, 55357, 56832>>)
    /\ sanResult.ret = <<65, 63, 63>>

\* C6: no input makes the sanitizer throw, and an empty, an absent and a null
\* input each give the empty string.
C6_NoException ==
    pc = "sanitized"
        => /\ ~sanResult.threw
           /\ (~Truthy(value) => sanResult.ret = <<>>)

---------------------------------------------------------------------------
(* Specification of one splitIntoLines call, one step per loop iteration *)

\* White space of each kind, a letter and a character the sanitizer replaces.
WrapChars == {SP, TAB, LF, CR, 97, 233}

WrapInputs ==
    {JsUndefined, JsNull} \cup {JsString(s) : s \in SeqsUpTo(WrapChars, MaxTextLen)}

InitWrap ==
    /\ pc = "split"
    /\ text \in WrapInputs
    /\ width \in 1..MaxWidth
    /\ segments = <<>>
    /\ remaining = <<>>
    /\ lines = <<>>
    /\ SanIdle
    /\ ExportIdle
    /\ stream = <<>>
    /\ pdfBytes = <<>>
    /\ StreamIdle
    /\ ViewIdle
    /\ NameIdle

wrapRest == <<value, sanResult, exportVars, stream, pdfBytes, streamVars,
              nameVars, viewVars>>

\* if (!text) return [''] (lines 121-123)
WrapEmptyText ==
    /\ pc = "split"
    /\ ~Truthy(text)
    /\ lines' = EmptyTextLines
    /\ pc' = "wrapped"
    /\ UNCHANGED <<text, width, segments, remaining, wrapRest>>

\* lines = []; sanitized = sanitizeAscii(text); sanitized.split(...) (124-126)
WrapSplit ==
    /\ pc = "split"
    /\ Truthy(text)
    /\ lines' = <<>>
    /\ segments' = SplitLines(sanitizeAscii(text).ret)
    /\ pc' = "segment"
    /\ UNCHANGED <<text, width, remaining, wrapRest>>

\* The forEach callback up to the while loop (lines 127-132).
SegmentStart ==
    /\ pc = "segment"
    /\ segments # <<>>
    /\ LET trimmed == TrimEnd(Head(segments))
       IN  IF Len(trimmed) = 0
           THEN /\ lines' = Append(lines, <<>>)
                /\ pc' = "segment"
                /\ UNCHANGED remaining
           ELSE /\ remaining' = trimmed
                /\ pc' = "loop"
                /\ UNCHANGED lines
    /\ segments' = Tail(segments)
    /\ UNCHANGED <<text, width, wrapRest>>

\* One iteration of while (remaining.length > width) (lines 133-140).
BreakLine ==
    /\ pc = "loop"
    /\ Len(remaining) > width
    /\ lines' = Append(lines, BreakStep(remaining, width).line)
    /\ remaining' = BreakStep(remaining, width).rest
    /\ UNCHANGED <<pc, text, width, segments, wrapRest>>

\* Loop exit and the push of the last piece (lines 141-143).
SegmentEnd ==
    /\ pc = "loop"
    /\ ~(Len(remaining) > width)
    /\ lines' = IF Len(remaining) > 0 THEN Append(lines, remaining) ELSE lines
    /\ pc' = "segment"
    /\ UNCHANGED <<text, width, segments, remaining, wrapRest>>

\* After forEach: the guard against an empty list and the return (145-148).
WrapReturn ==
    /\ pc = "segment"
    /\ segments = <<>>
    /\ lines' = IF Len(lines) = 0 THEN Append(lines, <<>>) ELSE lines
    /\ pc' = "wrapped"
    /\ UNCHANGED <<text, width, segments, remaining, wrapRest>>

NextWrap ==
    \/ WrapEmptyText
    \/ WrapSplit
    \/ SegmentStart
    \/ BreakLine
    \/ SegmentEnd
    \/ WrapReturn

SpecWrap == InitWrap /\ [][NextWrap]_vars

---------------------------------------------------------------------------
(* Claims about splitIntoLines, checked under SpecWrap *)

\* C7: every line held by the wrapper, while it runs and when it returns, is
\* at most width characters long (width >= 1).
C7_LineWidth ==
    \A i \in 1..Len(lines) : Len(lines[i]) <= width

\* A returned list in which a long input line was broken twice.
C7_Witness ==
    /\ pc = "wrapped"
    /\ width = 2
    /\ text = JsString(<<97, 97, 97, 32, 97>>)
    /\ lines = <<(<<97, 97>>), (<<97>>), (<<97>>)>>

\* C8: the wrapper never returns zero lines, and for an empty or absent text
\* it returns exactly one line, which is empty.
C8_NeverZeroLines ==
    pc = "wrapped"
        => /\ Len(lines) >= 1
           /\ (~Truthy(text) => lines = << <<>> >>)

\* The wrapper has returned for the empty string.
C8_Witness ==
    /\ pc = "wrapped"
    /\ text = JsString(<<>>)
    /\ lines = << <<>> >>

\* 0-based indices from lo to hi at which rem holds a space character.
SpacesBetween(rem, lo, hi) ==
    {j \in lo..hi : j < Len(rem) /\ rem[j + 1] = 32}

MaxOf(S) == CHOOSE k \in S : \A j \in S : j <= k

\* C9 as stated: a remainder longer than the width is broken at the last space
\* at or before index width (index 0 included); with no such space it is
\* broken at index width and the emitted piece has exactly width characters.
C9_BreakAtLastSpace ==
    [][(pc = "loop" /\ Len(remaining) > width)
         => LET S == SpacesBetween(remaining, 0, width)
                k == IF S = {} THEN width ELSE MaxOf(S)
            IN  /\ Len(lines') = Len(lines) + 1
                /\ lines'[Len(lines')] = TrimEnd(Slice(remaining, 0, k))
                /\ remaining' = StripLeadingSpace(SliceFrom(remaining, k))
                /\ (S = {} => Len(lines'[Len(lines')]) = width)]_vars

\* C9 amended: a remainder longer than the width is broken at the last space
\* at an index from 1 to width; with no such space (none at all, or one at
\* index 0 only) it is broken at index width.  The emitted piece is the part
\* before the break without its trailing white space, the new remainder the
\* part from the break on without its leading white space, and the loop goes
\* on until the remainder is no longer than the width.
C9_BreakRule ==
    [][/\ (pc = "loop" /\ Len(remaining) > width)
            => LET S == SpacesBetween(remaining, 1, width)
                   k == IF S = {} THEN width ELSE MaxOf(S)
               IN  /\ lines' = Append(lines, TrimEnd(Slice(remaining, 0, k)))
                   /\ remaining' = StripLeadingSpace(SliceFrom(remaining, k))
                   /\ Len(remaining') < Len(remaining)
                   /\ pc' = "loop"
       /\ (pc = "loop" /\ Len(remaining) <= width)
            => /\ pc' = "segment"
               /\ lines' = Append(lines, remaining)]_vars

\* A line with a leading space and no other space before the boundary was
\* force-broken at the width and then broken at a space at index width.
C9_Witness ==
    /\ pc = "wrapped"
    /\ width = 2
    /\ text = JsString(<<32, 97, 97, 32, 97>>)
    /\ lines = <<(<<32, 97>>), (<<97>>), (<<97>>)>>

IsBlank(seg) == \A i \in 1..Len(seg) : IsWhiteSpace(seg[i])

\* Number of input lines of a string: one more than its line feeds.
InputLineCount(s) == 1 + Cardinality({i \in 1..Len(s) : s[i] = 10})

\* C10: the output is built input line by input line, in order: the input has
\* one line more than it has line feeds; every step appends to the list and
\* leaves what it holds; a blank input line appends exactly one empty line; any
\* other input line enters the loop with a non-empty remainder and leaves it by
\* appending a line; so the result has at least one line per input line.
C10_LineByLine ==
    [][/\ (pc = "split" /\ Truthy(text))
            => /\ Len(segments') = InputLineCount(text.chars)
               /\ lines' = <<>>
       /\ pc # "split"
            => /\ Len(lines') >= Len(lines)
               /\ SubSeq(lines', 1, Len(lines)) = lines
               /\ (segments' = segments
                      \/ (segments # <<>> /\ segments' = Tail(segments)))
       /\ (pc = "segment" /\ segments # <<>> /\ IsBlank(Head(segments)))
            => /\ lines' = Append(lines, <<>>)
               /\ pc' = "segment"
               /\ segments' = Tail(segments)
       /\ (pc = "segment" /\ segments # <<>> /\ ~IsBlank(Head(segments)))
            => /\ lines' = lines
               /\ pc' = "loop"
               /\ Len(remaining') > 0
               /\ segments' = Tail(segments)
       /\ pc = "loop"
            => /\ Len(remaining') > 0
               /\ (pc' = "segment" => Len(lines') = Len(lines) + 1)
       /\ (pc = "segment" /\ segments = <<>>)
            => /\ pc' = "wrapped"
               /\ lines' = lines
               /\ Len(lines') >= InputLineCount(text.chars)]_vars

\* A text of a long line, a line ended by CR LF and a last empty line.
C10_Witness ==
    /\ pc = "wrapped"
    /\ width = 1
    /\ text = JsString(<<97, 97, 10, 13, 10>>)
    /\ lines = <<(<<97>>), (<<97>>), <<>>, <<>>>>

\* C11: no line held by the wrapper ends with a white-space character; the
\* remainder left by a break is not empty and does not begin with white space;
\* every line pushed by the loop begins where the remainder began, and is not
\* empty when the remainder began with another character: so no continuation
\* line begins with white space.  For a text of one input line, every line
\* after the first is a continuation line.
C11_NoEdgeWhiteSpace ==
    [][/\ \A i \in 1..Len(lines') :
             lines'[i] = <<>> \/ ~IsWhiteSpace(lines'[i][Len(lines'[i])])
       /\ (pc = "loop" /\ pc' = "loop")
            => /\ remaining' # <<>>
               /\ ~IsWhiteSpace(remaining'[1])
       /\ pc = "loop"
            => /\ Len(lines') = Len(lines) + 1
               /\ lines'[Len(lines')] = <<>>
                      \/ lines'[Len(lines')][1] = remaining[1]
               /\ ~IsWhiteSpace(remaining[1]) => lines'[Len(lines')] # <<>>
       /\ (pc' = "wrapped" /\ Truthy(text) /\ InputLineCount(text.chars) = 1)
            => \A i \in 2..Len(lines') :
                  lines'[i] # <<>> /\ ~IsWhiteSpace(lines'[i][1])]_vars

\* A line broken at a run of two spaces and ended by a space.
C11_Witness ==
    /\ pc = "wrapped"
    /\ width = 2
    /\ text = JsString(<<97, 32, 32, 97, 32>>)
    /\ lines = <<(<<97>>), (<<97>>)>>

---------------------------------------------------------------------------
(* Specification of one splitIntoLines call for any non-negative width *)

InitWrapAny ==
    /\ pc = "split"
    /\ text \in WrapInputs
    /\ width \in 0..MaxWidth
    /\ segments = <<>>
    /\ remaining = <<>>
    /\ lines = <<>>
    /\ SanIdle
    /\ ExportIdle
    /\ stream = <<>>
    /\ pdfBytes = <<>>
    /\ StreamIdle
    /\ ViewIdle
    /\ NameIdle

\* The loop iteration, followed while the list holds fewer than MaxLoopLines
\* lines.
BreakLineBounded ==
    /\ Len(lines) < MaxLoopLines
    /\ BreakLine

NextWrapAny ==
    \/ WrapEmptyText
    \/ WrapSplit
    \/ SegmentStart
    \/ BreakLineBounded
    \/ SegmentEnd
    \/ WrapReturn

SpecWrapAny == InitWrapAny /\ [][NextWrapAny]_vars

\* C12: for every non-negative width the break loop consumes at least one
\* character of the remaining text on each iteration (so that the wrapper
\* terminates).
C12_LoopConsumes ==
    [][(pc = "loop" /\ Len(remaining) > width)
         => Len(remaining') < Len(remaining)]_vars

---------------------------------------------------------------------------
(* Specification of one buildContentStream call *)

\* A letter, the three reserved characters and the two line-break characters.
LineChars == {65, BACKSLASH, LPAREN, RPAREN, LF, CR}

\* A list of n one-letter lines.
LetterLines(n) == [i \in 1..n |-> <<65>>]

\* Short lists of any lines, and lists filling one page and more.
StreamLineLists ==
    SeqsUpTo(SeqsUpTo(LineChars, MaxLineLen), MaxStreamLines)
        \cup {LetterLines(n) : n \in {51, 52, 103}}

InitStream ==
    /\ pc = "commands"
    /\ pdfLines \in StreamLineLists
    /\ contentStream = <<>>
    /\ pdfBytes = <<>>
    /\ summaryText = JsUndefined
    /\ citations = [isArray |-> FALSE, items |-> <<>>]
    /\ focusAspect = JsUndefined
    /\ calls = 0
    /\ firstCall = NoCall
    /\ SanIdle
    /\ WrapIdle
    /\ stream = <<>>
    /\ StreamIdle
    /\ ViewIdle
    /\ NameIdle

streamRest == <<summaryText, citations, focusAspect, pdfBytes, calls, firstCall,
                sanVars, wrapVars, stream, nameVars, viewVars>>

\* Lines 179-181: the two opening commands and the first y.
StreamStart ==
    /\ pc = "commands"
    /\ commands' = <<BeginText, FontSelector>>
    /\ y' = TopY
    /\ pc' = "each"
    /\ UNCHANGED <<pdfLines, contentStream, streamRest>>

\* Lines 182-188: the forEach callback for the next line.
PushCommand ==
    /\ pc = "each"
    /\ Len(commands) - 2 < Len(pdfLines)
    /\ commands' = Append(commands, LineCommand(pdfLines[Len(commands) - 1], y))
    /\ y' = NextY(y)
    /\ UNCHANGED <<pc, pdfLines, contentStream, streamRest>>

\* Lines 189-190: the closing command and the joined stream.
StreamReturn ==
    /\ pc = "each"
    /\ Len(commands) - 2 = Len(pdfLines)
    /\ commands' = Append(commands, EndText)
    /\ contentStream' = JoinLines(commands') \o <<LF>>
    /\ pc' = "streamed"
    /\ UNCHANGED <<y, pdfLines, streamRest>>

NextStream == StreamStart \/ PushCommand \/ StreamReturn

SpecStream == InitStream /\ [][NextStream]_vars

---------------------------------------------------------------------------
(* Claims about buildContentStream, checked under SpecStream *)

\* Positions of the line feeds of a string.
FeedsOf(st) == {i \in 1..Len(st) : st[i] = 10}

\* The k-th row of a string: the characters before its k-th line feed and
\* after the one before.
RowOf(st, k) ==
    LET feeds == FeedsOf(st)
        nth(m) == CHOOSE e \in feeds : Cardinality({f \in feeds : f <= e}) = m
        start == IF k = 1 THEN 0 ELSE nth(k - 1)
    IN  SubSeq(st, start + 1, nth(k) - 1)

\* The y coordinate of a positioning row "1 0 0 1 50 y Tm (...) Tj".
RowY(row) == ReadNumber(row, 11, DigitRun(row, 11))

\* The string argument of the show-text command of such a row.
ShowTextArg(row) == SubSeq(row, 11 + DigitRun(row, 11) + 5 + 1, Len(row) - 4)

\* A line with every CR LF read as one line feed.
NormalizeNewlines(line) ==
    SelectSeq([i \in 1..Len(line) |->
                  IF line[i] = 13 /\ i < Len(line) /\ line[i + 1] = 10
                  THEN -1 ELSE line[i]],
              LAMBDA c : c # -1)

\* Reading an escaped string back from position i on: ok is FALSE for a bare
\* parenthesis, a raw line feed or a backslash that escapes nothing known.
RECURSIVE UnescapeFrom(_, _)
UnescapeFrom(arg, i) ==
    IF i > Len(arg) THEN [ok |-> TRUE, out |-> <<>>]
    ELSE IF arg[i] = 92
    THEN IF i = Len(arg) THEN [ok |-> FALSE, out |-> <<>>]
         ELSE IF arg[i + 1] \in {92, 40, 41, 110}
         THEN LET rest == UnescapeFrom(arg, i + 2)
                  c == IF arg[i + 1] = 110 THEN 10 ELSE arg[i + 1]
              IN  [ok |-> rest.ok, out |-> <<c>> \o rest.out]
         ELSE [ok |-> FALSE, out |-> <<>>]
    ELSE IF arg[i] \in {40, 41, 10} THEN [ok |-> FALSE, out |-> <<>>]
    ELSE LET rest == UnescapeFrom(arg, i + 1)
         IN  [ok |-> rest.ok, out |-> <<arg[i]>> \o rest.out]

\* C13: the stream of N lines has exactly N+3 line feeds and ends with one;
\* its rows are BT, /F1 12 Tf, one row "1 0 0 1 x y Tm (...) Tj" per line in
\* the order of the lines, whose string reads back as that line, and ET.
C13_Rows ==
    pc = "streamed"
        => LET st == contentStream
               n == Len(pdfLines)
           IN  /\ Cardinality(FeedsOf(st)) = n + 3
               /\ st[Len(st)] = 10
               /\ RowOf(st, 1) = <<66, 84>>
               /\ RowOf(st, 2) = <<47, 70, 49, 32, 49, 50, 32, 84, 102>>
               /\ RowOf(st, n + 3) = <<69, 84>>
               /\ \A i \in 1..n :
                     LET row == RowOf(st, i + 2)
                         d == DigitRun(row, 11)
                     IN  /\ HoldsAt(row, 0, <<49, 32, 48, 32, 48, 32, 49, 32>>)
                         /\ d > 0
                         /\ HoldsAt(row, 11 + d, <<32, 84, 109, 32, 40>>)
                         /\ HoldsAt(row, Len(row) - 4, <<41, 32, 84, 106>>)
                         /\ UnescapeFrom(ShowTextArg(row), 1).ok
                         /\ UnescapeFrom(ShowTextArg(row), 1).out
                                = NormalizeNewlines(pdfLines[i])

\* A stream of two lines that hold a line feed and a CR LF.
C13_Witness ==
    /\ pc = "streamed"
    /\ pdfLines = <<(<<65, 10>>), (<<13, 10>>)>>
    /\ Cardinality(FeedsOf(contentStream)) = 5

\* The escaped form of a line, character by character.
EscapedForm(line) ==
    Flatten([i \in 1..Len(line) |->
                IF line[i] \in {92, 40, 41} THEN <<92, line[i]>>
                ELSE IF line[i] = 10 THEN <<92, 110>>
                ELSE IF line[i] = 13 /\ i < Len(line) /\ line[i + 1] = 10 THEN <<>>
                ELSE <<line[i]>>])

\* C14: the string argument of the row of a line is the line with a backslash
\* before each backslash and parenthesis and with backslash n for each line
\* break (LF or CR LF); it holds no bare parenthesis and no raw line feed, and
\* read back it is the line, CR LF being one line feed.
C14_Escape ==
    pc = "streamed"
        => \A i \in 1..Len(pdfLines) :
              LET arg == ShowTextArg(RowOf(contentStream, i + 2))
              IN  /\ arg = EscapedForm(pdfLines[i])
                  /\ UnescapeFrom(arg, 1).ok
                  /\ UnescapeFrom(arg, 1).out = NormalizeNewlines(pdfLines[i])

\* A line made of a backslash and a parenthesis, escaped in the stream.
C14_Witness ==
    /\ pc = "streamed"
    /\ pdfLines = <<(<<92, 40>>)>>
    /\ ShowTextArg(RowOf(contentStream, 3)) = <<92, 92, 92, 40>>

\* C15: the row of the line of 0-based index i has x = 50 and
\* y = 760 - 14 * (i mod 51), every y is from 60 to 760, and two lines have
\* the same y exactly when their indices are congruent modulo 51.
C15_Cursor ==
    pc = "streamed"
        => LET n == Len(pdfLines)
               ys == [i \in 1..n |-> RowY(RowOf(contentStream, i + 2))]
           IN  /\ \A i \in 1..n :
                     /\ HoldsAt(RowOf(contentStream, i + 2), 0,
                                <<49, 32, 48, 32, 48, 32, 49, 32, 53, 48, 32>>)
                     /\ ys[i] = 760 - 14 * ((i - 1) % 51)
                     /\ ys[i] >= 60
                     /\ ys[i] <= 760
               /\ \A i, j \in 1..n :
                     (ys[i] = ys[j]) <=> ((i - 1) % 51 = (j - 1) % 51)

\* A stream of 103 lines: the 51st line is at 60 and the 52nd and the 103rd
\* at 760 again.
C15_Witness ==
    /\ pc = "streamed"
    /\ Len(pdfLines) = 103
    /\ RowY(RowOf(contentStream, 51 + 2)) = 60
    /\ RowY(RowOf(contentStream, 52 + 2)) = 760
    /\ RowY(RowOf(contentStream, 103 + 2)) = 760

---------------------------------------------------------------------------
(* Claims about the object graph and the cross-reference section, checked  *)
(* under SpecExport                                                        *)

\* 0-based offset of the first occurrence of pat that lies in buf[lo..hi), or
\* -1.
FirstOffsetIn(buf, lo, hi, pat) ==
    LET hits == {k \in lo..(hi - Len(pat)) : HoldsAt(buf, k, pat)}
    IN  IF hits = {} THEN -1 ELSE CHOOSE k \in hits : \A j \in hits : k <= j

\* Number of occurrences of pat that lie in buf[lo..hi).
CountIn(buf, lo, hi, pat) ==
    Cardinality({k \in lo..(hi - Len(pat)) : HoldsAt(buf, k, pat)})

\* The number written right after the first key in buf[lo..hi) when the
\* bytes in closing follow it, or -1.
NumberAfter(buf, lo, hi, key, closing) ==
    LET k == FirstOffsetIn(buf, lo, hi, key)
        at == k + Len(key)
        d == DigitRun(buf, at)
    IN  IF k = -1 \/ d = 0 \/ ~HoldsAt(buf, at + d, closing) THEN -1
        ELSE ReadNumber(buf, at, d)

\* Where object i starts and where it ends, by the cross-reference entries;
\* the last object ends where the cross-reference section begins.
ObjectLo(buf, i) == XrefEntryOffset(buf, i)
ObjectHi(buf, i) ==
    IF i < 5 THEN XrefEntryOffset(buf, i + 1) ELSE XrefSectionOffset(buf)

\* Where the trailer dictionary starts and ends.
TrailerLo(buf) == LastOffsetOf(buf, <<10, 116, 114, 97, 105, 108, 101, 114, 10>>) + 1
TrailerHi(buf) == LastOffsetOf(buf, <<115, 116, 97, 114, 116, 120, 114, 101, 102, 10>>)

ObjKeyword == Codes(" 0 obj ")
EndObjLine == Codes(" endobj\n")
RefClose == Codes(" 0 R")
KidsClose == Codes(" 0 R]")
TypeCatalog == Codes("/Type /Catalog ")
TypePages == Codes("/Type /Pages ")
TypePage == Codes("/Type /Page ")
TypeFont == Codes("/Type /Font ")
KeyLength == Codes("<< /Length ")
KeyPages == Codes("/Pages ")
KeyParent == Codes("/Parent ")
KeyKids == Codes("/Kids [")
KeyCount == Codes("/Count ")
KeyFont == Codes("/Font << /F1 ")
KeyContents == Codes("/Contents ")
KeyRoot == Codes("/Root ")
KeySize == Codes("/Size ")

\* C16: the document holds the five objects 1..5 one after the other from the
\* end of the header line to the cross-reference section, being the catalog,
\* the page collection, the page, the font and the content stream; catalog
\* /Pages and page /Parent name 2, /Kids names 3 with /Count 1, the font
\* resource names 4, /Contents names 5, the trailer has /Root 1 and /Size 6.
C16_ObjectGraph ==
    pc = "blob"
        => LET buf == pdfBytes
               Lo(i) == ObjectLo(buf, i)
               Hi(i) == ObjectHi(buf, i)
           IN  /\ Lo(1) = 9
               /\ \A i \in 1..5 :
                     /\ Lo(i) < Hi(i)
                     /\ HoldsAt(buf, Lo(i), ObjectStart(i))
                     /\ HoldsAt(buf, Hi(i) - 8, EndObjLine)
               /\ \A i \in 1..4 :
                     /\ CountIn(buf, Lo(i), Hi(i), ObjKeyword) = 1
                     /\ CountIn(buf, Lo(i), Hi(i), EndObjLine) = 1
               /\ HoldsAt(buf, Lo(1) + 11, TypeCatalog)
               /\ HoldsAt(buf, Lo(2) + 11, TypePages)
               /\ HoldsAt(buf, Lo(3) + 11, TypePage)
               /\ HoldsAt(buf, Lo(4) + 11, TypeFont)
               /\ HoldsAt(buf, Lo(5) + 8, KeyLength)
               /\ NumberAfter(buf, Lo(1), Hi(1), KeyPages, RefClose) = 2
               /\ NumberAfter(buf, Lo(2), Hi(2), KeyKids, KidsClose) = 3
               /\ NumberAfter(buf, Lo(2), Hi(2), KeyCount, <<32>>) = 1
               /\ NumberAfter(buf, Lo(3), Hi(3), KeyParent, RefClose) = 2
               /\ NumberAfter(buf, Lo(3), Hi(3), KeyFont, RefClose) = 4
               /\ NumberAfter(buf, Lo(3), Hi(3), KeyContents, RefClose) = 5
               /\ NumberAfter(buf, TrailerLo(buf), TrailerHi(buf), KeyRoot, RefClose) = 1
               /\ NumberAfter(buf, TrailerLo(buf), TrailerHi(buf), KeySize, <<32>>) = 6

\* A returned document of a wrapped summary with two citations, whose page
\* names the page collection and the content stream.
C16_Witness ==
    /\ pc = "blob"
    /\ summaryText = JsString(LongText)
    /\ Len(citations.items) = 2
    /\ NumberAfter(pdfBytes, ObjectLo(pdfBytes, 3), ObjectHi(pdfBytes, 3),
                   KeyParent, RefClose) = 2
    /\ NumberAfter(pdfBytes, ObjectLo(pdfBytes, 3), ObjectHi(pdfBytes, 3),
                   KeyContents, RefClose) = 5

XrefOpening == Codes("xref\n0 6\n")
FreeEntry == Codes("0000000000 65535 f \n")
InUseTail == Codes(" 00000 n \n")
TrailerLine == Codes("trailer\n")

\* C17: the cross-reference section is the line "xref", the line "0 6", the
\* free entry "0000000000 65535 f" and five in-use entries of 20 bytes, each
\* ten digits, the generation 00000 and the flag n, followed by the trailer;
\* entry i holds the offset of object i and the offsets increase with i.
C17_XrefSection ==
    pc = "blob"
        => LET buf == pdfBytes
               x == XrefSectionOffset(buf)
           IN  /\ x > 0
               /\ HoldsAt(buf, x, XrefOpening)
               /\ HoldsAt(buf, x + 9, FreeEntry)
               /\ \A i \in 1..5 :
                     /\ \A j \in 1..10 : IsDigit(buf[x + 9 + 20 * i + j])
                     /\ HoldsAt(buf, x + 9 + 20 * i + 10, InUseTail)
                     /\ HoldsAt(buf, XrefEntryOffset(buf, i), ObjectStart(i))
               /\ HoldsAt(buf, x + 9 + 20 * 6, TrailerLine)
               /\ \A i \in 1..4 :
                     XrefEntryOffset(buf, i) < XrefEntryOffset(buf, i + 1)

\* A returned document whose last entry is a three-digit offset behind seven
\* zeros.
C17_Witness ==
    /\ pc = "blob"
    /\ summaryText = JsString(LongText)
    /\ XrefEntryOffset(pdfBytes, 5) > 99
    /\ XrefEntryOffset(pdfBytes, 5) < 1000
    /\ HoldsAt(pdfBytes, XrefSectionOffset(pdfBytes) + 9 + 20 * 5,
               <<48, 48, 48, 48, 48, 48, 48>>)

---------------------------------------------------------------------------
(* Claims about the line list of createFallbackPdfBlob, checked under      *)
(* SpecExport                                                              *)

\* The entries of the citation array that are non-empty strings, in order.
NonEmptyCitations(c) ==
    SelectSeq(c.items, LAMBDA e : e.type = "string" /\ e.chars # <<>>)

\* The text "k. citation".
Numbered(k, e) == JsString(ToDigits(k) \o <<46, 32>> \o e.chars)

\* C18: the list handed to buildContentStream is the header ("Summary -
\* Focus: " and the sanitized focus label when one is given, else "Summary"),
\* one empty line, the wrapped summary text, and, exactly when a non-empty
\* citation exists, one empty line, "References:" and the wrapped lines of
\* "k. citation" for the k-th non-empty citation; empty entries take no number.
C18_LineList ==
    pc = "stream"
        => LET L == pdfLines
               body == wrapParagraphs(summaryText)
               kept == NonEmptyCitations(citations)
               n == 2 + Len(body)
               refs == Flatten([k \in 1..Len(kept) |->
                                   wrapParagraphs(Numbered(k, kept[k]))])
           IN  /\ Len(L) >= n
               /\ L[1] = IF focusAspect.type = "string" /\ focusAspect.chars # <<>>
                         THEN <<83, 117, 109, 109, 97, 114, 121, 32, 45, 32, 70,
                                111, 99, 117, 115, 58, 32>>
                                  \o sanitizeAscii(focusAspect).ret
                         ELSE <<83, 117, 109, 109, 97, 114, 121>>
               /\ L[2] = <<>>
               /\ SubSeq(L, 3, n) = body
               /\ kept = <<>> <=> Len(L) = n
               /\ kept # <<>>
                    => /\ Len(L) = n + 2 + Len(refs)
                       /\ L[n + 1] = <<>>
                       /\ L[n + 2] = <<82, 101, 102, 101, 114, 101, 110, 99,
                                       101, 115, 58>>
                       /\ SubSeq(L, n + 3, Len(L)) = refs

\* An empty entry before a citation: the citation is numbered 1.
C18_Witness ==
    /\ pc = "stream"
    /\ citations = [isArray |-> TRUE, items |-> <<JsString(<<>>), JsString(<<66>>)>>]
    /\ focusAspect = JsString(<<233, 10>>)
    /\ summaryText = JsString(<<65>>)
    /\ pdfLines = <<(<<83, 117, 109, 109, 97, 114, 121, 32, 45, 32, 70,
                       111, 99, 117, 115, 58, 32, 63, 10>>),
                    (<<>>), (<<65>>), (<<>>),
                    (<<82, 101, 102, 101, 114, 101, 110, 99, 101, 115, 58>>),
                    (<<49, 46, 32, 66>>)>>

---------------------------------------------------------------------------
(* Specification of one buildFallbackFilename call *)

\* Session ids and summary types: absent, or letters and slashes.
IdArgs ==
    {JsUndefined, JsNull} \cup {JsString(s) : s \in SeqsUpTo({65, 47}, MaxNameLen)}

\* Characters of the focus labels: legal ones, white space and illegal ones.
NameChars == {65, 45, UNDERSCORE, SP, TAB, 47, 233}

\* Labels longer than 40 characters: 21 times "a ", and two letters around a
\* run of 50 spaces.
LongLabel == Flatten([j \in 1..21 |-> <<97, SP>>])
GapLabel == <<97>> \o [j \in 1..50 |-> SP] \o <<98>>

FocusLabels ==
    {JsUndefined, JsString(LongLabel), JsString(GapLabel)}
        \cup {JsString(s) : s \in SeqsUpTo(NameChars, MaxNameLen)}

InitFilename ==
    /\ pc = "filename"
    /\ sessionId \in IdArgs
    /\ summaryType \in IdArgs
    /\ focusAspect \in FocusLabels
    /\ filename = NoName
    /\ summaryText = JsUndefined
    /\ citations = [isArray |-> FALSE, items |-> <<>>]
    /\ pdfLines = <<>>
    /\ contentStream = <<>>
    /\ calls = 0
    /\ firstCall = NoCall
    /\ SanIdle
    /\ WrapIdle
    /\ StreamIdle
    /\ ViewIdle
    /\ stream = <<>>
    /\ pdfBytes = <<>>

FilenameCall ==
    /\ pc = "filename"
    /\ filename' = [done |-> TRUE,
                    name |-> buildFallbackFilename(sessionId, summaryType,
                                                   focusAspect)]
    /\ pc' = "named"
    /\ UNCHANGED <<sessionId, summaryType, exportVars, sanVars, wrapVars,
                   streamVars, stream, pdfBytes, viewVars>>

NextFilename == FilenameCall

SpecFilename == InitFilename /\ [][NextFilename]_vars

---------------------------------------------------------------------------
(* Claims about buildFallbackFilename, checked under SpecFilename *)

\* The characters A-Z, a-z, 0-9, underscore and hyphen.
StemChars == (65..90) \cup (97..122) \cup (48..57) \cup {95, 45}

\* The name without its last four characters.
StemOf(name) == SubSeq(name, 1, Len(name) - 4)

\* C20: the returned name is a stem followed by ".pdf", the stem holds only
\* characters of [A-Za-z0-9_-], and when the session id, the summary type
\* and the focus label give no name the result is "summary_export.pdf".
C20_Filename ==
    pc = "named"
        => /\ Len(filename.name) > 4
           /\ SubSeq(filename.name, Len(filename.name) - 3, Len(filename.name))
                  = <<46, 112, 100, 102>>
           /\ \A i \in 1..Len(StemOf(filename.name)) :
                  StemOf(filename.name)[i] \in StemChars
           /\ (~Truthy(sessionId) /\ ~Truthy(summaryType) /\ ~Truthy(focusAspect))
                  => filename.name = <<115, 117, 109, 109, 97, 114, 121, 95, 101,
                                       120, 112, 111, 114, 116, 46, 112, 100, 102>>

---------------------------------------------------------------------------
(* Specification of the line list of one createFallbackPdfBlob call *)

\* A focus label of 74 letters.
WideLabel == [j \in 1..74 |-> 109]

LabelArgs ==
    FocusArgs \cup {JsString(WideLabel)}
        \cup {JsString(s) : s \in SeqsUpTo(ArgChars, MaxArgLen)}

InitLines ==
    /\ pc = "lines"
    /\ summaryText \in {JsString(<<>>), JsString(<<65>>), JsString(LongText)}
    /\ citations \in CitationArgs
    /\ focusAspect \in LabelArgs
    /\ pdfLines = <<>>
    /\ contentStream = <<>>
    /\ pdfBytes = <<>>
    /\ calls = 0
    /\ firstCall = NoCall
    /\ SanIdle
    /\ WrapIdle
    /\ stream = <<>>
    /\ StreamIdle
    /\ ViewIdle
    /\ NameIdle

NextLines == BuildLines

SpecLines == InitLines /\ [][NextLines]_vars

\* C26: every line handed to buildContentStream, the header, the body, the
\* heading and the citations alike, holds only characters the sanitizer
\* leaves in place and is at most 90 characters long.
C26_LinesBounded ==
    pc = "stream"
        => \A i \in 1..Len(pdfLines) :
              /\ Len(pdfLines[i]) <= 90
              /\ \A j \in 1..Len(pdfLines[i]) : pdfLines[i][j] \in LegalSet

---------------------------------------------------------------------------
(* More claims about splitIntoLines, checked under SpecWrap *)

\* The characters of a string that are not white space, in order.
NonWhiteSpace(s) == SelectSeq(s, LAMBDA c : ~IsWhiteSpace(c))

\* C27: the characters of the returned lines that are not white space, read
\* in order, are those of the sanitized text in order (width >= 1).
C27_NoTextLost ==
    pc = "wrapped"
        => NonWhiteSpace(Flatten(lines))
              = IF Truthy(text) THEN NonWhiteSpace(sanitizeAscii(text).ret)
                ELSE <<>>

\* A text broken once at a space and once inside a word.
C27_Witness ==
    /\ pc = "wrapped"
    /\ width = 2
    /\ text = JsString(<<97, 32, 233, 97, 97>>)
    /\ lines = <<(<<97>>), (<<63, 97>>), (<<97>>)>>

\* C28: for a non-empty text and a width >= 1 an empty line is appended only
\* for a blank input line; a step of the loop over an input line that holds a
\* character other than white space appends no empty line.
C28_EmptyOnlyForBlank ==
    [][(Truthy(text) /\ Len(lines') > Len(lines) /\ lines'[Len(lines')] = <<>>)
          => (pc = "segment" /\ segments # <<>> /\ IsBlank(Head(segments)))]_vars

---------------------------------------------------------------------------
(* The download handlers of SummaryReviewPage and its unmount effect *)

(***************************************************************************)
(* JavaScript runs one handler at a time: a handler runs from the click to *)
(* its await, and from the settlement of the awaited request to its end,   *)
(* with no other handler in between.  running is the attempt that is in    *)
(* such a stretch; its statements are steps of their own so that the state *)
(* between two of them can be examined.  An attempt is a record:           *)
(*   handler    "click" (handleDownloadClick) or "history"                 *)
(*              (handleHistoryDownload), "none" once it has finished       *)
(*   st         the statement it is at                                     *)
(*   remote     outcome of downloadPdfFromUrl: "none" (not called),        *)
(*              "pending", "ok" or "failed"                                *)
(*   fallback   the try block of the client-side fallback was entered      *)
(*   delivered  the click that delivered a file: "none", "remote",         *)
(*              "fallback"                                                 *)
(*   src1, src2 the two texts the callback captured, from where they are   *)
(*              read on (JsNull before)                                    *)
(*   held       the ref's current and its liveness when the fallback try   *)
(*              block was entered                                          *)
(*   handle     the local blobUrl / objectUrl (0 before it is created)     *)
(* An object URL is a record [path, by, live, revokes]: the path and the   *)
(* attempt that created it, whether it is live, and how often it was       *)
(* passed to URL.revokeObjectURL.  The texts a callback captured are state *)
(* of the view that nothing reads before line 626 (693), so they are drawn *)
(* where they are read.  The file name of the download is modelled by      *)
(* buildFallbackFilename above and plays no part here.                     *)
(***************************************************************************)

NoHeld == [ref |-> 0, live |-> FALSE]

\* An attempt at the statement st.
NewAttempt(handler, st, remote) ==
    [handler |-> handler, st |-> st, remote |-> remote,
     fallback |-> (st = "text"), delivered |-> "none",
     src1 |-> JsNull, src2 |-> JsNull, held |-> NoHeld, handle |-> 0]

\* An attempt that has returned: its locals are gone.
Finished(att, remote, delivered) ==
    [handler |-> "none", st |-> "done", remote |-> remote,
     fallback |-> att.fallback, delivered |-> delivered,
     src1 |-> JsNull, src2 |-> JsNull, held |-> NoHeld, handle |-> 0]

\* The attempt enters the try block of the fallback (lines 625, 692).
EnterFallback(att, remote) ==
    [att EXCEPT !.st = "text", !.remote = remote, !.fallback = TRUE,
                !.handle = 0]

\* URL.createObjectURL(blob) by attempt a.
CreateUrl(store, path, a) ==
    Append(store, [path |-> path, by |-> a, live |-> TRUE, revokes |-> 0])

\* URL.revokeObjectURL(h)
Revoke(store, h) ==
    [store EXCEPT ![h] = [@ EXCEPT !.live = FALSE, !.revokes = @ + 1]]

\* The stored handle left alone.
RevokeStoredSkipped(store, ref) == store

\* if (fallbackObjectUrlRef.current) URL.revokeObjectURL(...) (lines 632-634,
\* 702-704, 722-723).
RevokeStored(store, ref) == IF ref # 0 THEN Revoke(store, ref) ELSE store

Placeholder == Codes("Summary is not available yet.")

\* a && a.trim()
TrimmedOrFalsy(a) == IF Truthy(a) THEN JsString(Trim(a.chars)) ELSE a

\* (a && a.trim()) || (b && b.trim()) || 'Summary is not available yet.'
\* (lines 626, 693-696).
ExportText(a, b) ==
    IF Truthy(TrimmedOrFalsy(a)) THEN TrimmedOrFalsy(a)
    ELSE IF Truthy(TrimmedOrFalsy(b)) THEN TrimmedOrFalsy(b)
    ELSE JsString(Placeholder)

\* The handler going on to the fallback after a download that succeeded.
AfterDownloadNoReturn(att, ok) ==
    EnterFallback(att, IF ok THEN "ok" ELSE "failed")

\* await downloadPdfFromUrl(...); return; and the catch (lines 617-622,
\* 684-689): the attempt after the download has settled.
AfterDownload(att, ok) ==
    IF ok THEN Finished(att, "ok", "remote") ELSE EnterFallback(att, "failed")

\* The texts a callback can have captured.
FirstTexts == {JsNull, JsString(<<SP>>), JsString(<<SP, 97, SP>>)}
SecondTexts == {JsNull, JsString(<<TAB>>), JsString(<<98>>)}

exportArgs == <<summaryText, citations, focusAspect, pdfBytes>>
viewRest == <<sanVars, wrapVars, stream, streamVars, nameVars, pdfLines,
              contentStream, calls, firstCall>>

\* The locals of the fallback block are gone.
ArgsCleared ==
    /\ summaryText' = JsUndefined
    /\ citations' = [isArray |-> FALSE, items |-> <<>>]
    /\ focusAspect' = JsUndefined
    /\ pdfBytes' = <<>>

InitView ==
    /\ pc = "view"
    /\ ViewIdle
    /\ ExportIdle
    /\ SanIdle
    /\ WrapIdle
    /\ StreamIdle
    /\ NameIdle
    /\ stream = <<>>
    /\ pdfBytes = <<>>

\* A handler is called: with a PDF URL it awaits downloadPdfFromUrl, without
\* one it enters the fallback (lines 611-625, 658-692).
StartAttempt(handler, hasUrl) ==
    /\ mounted
    /\ running = 0
    /\ Len(attempts) < MaxAttempts
    /\ attempts' = Append(attempts,
                          IF hasUrl
                          THEN NewAttempt(handler, "await", "pending")
                          ELSE NewAttempt(handler, "text", "none"))
    /\ running' = IF hasUrl THEN 0 ELSE Len(attempts) + 1
    /\ UNCHANGED <<pc, mounted, fallbackObjectUrlRef, objectUrls, exportArgs,
                   viewRest>>

\* handleDownloadClick; the URL is summaryPdfUrl.
DownloadClick == \E hasUrl \in BOOLEAN : StartAttempt("click", hasUrl)

\* handleHistoryDownload of a record; the URL is record.pdf_url.
HistoryDownload == \E hasUrl \in BOOLEAN : StartAttempt("history", hasUrl)

\* The request of downloadPdfFromUrl is answered (lines 161-164).
RemoteResolved ==
    /\ running = 0
    /\ \E a \in 1..Len(attempts) :
          /\ attempts[a].st = "await"
          /\ attempts' = [attempts EXCEPT ![a].st = "blob"]
          /\ running' = a
    /\ UNCHANGED <<pc, mounted, fallbackObjectUrlRef, objectUrls, exportArgs,
                   viewRest>>

\* The request fails: downloadPdfFromUrl rejects and the handler catches
\* (lines 161, 620-622, 687-689).
RemoteRejected ==
    /\ running = 0
    /\ \E a \in 1..Len(attempts) :
          /\ attempts[a].st = "await"
          /\ attempts' = [attempts EXCEPT ![a] = EnterFallback(@, "failed")]
          /\ running' = a
    /\ UNCHANGED <<pc, mounted, fallbackObjectUrlRef, objectUrls, exportArgs,
                   viewRest>>

\* const blobUrl = URL.createObjectURL(blob) (line 165); when it throws the
\* handler catches.
CreateBlobUrl ==
    /\ running # 0
    /\ attempts[running].st = "blob"
    /\ \E ok \in BOOLEAN :
          IF ok
          THEN /\ objectUrls' = CreateUrl(objectUrls, "remote", running)
               /\ attempts' = [attempts EXCEPT ![running].st = "anchor",
                                               ![running].handle = Len(objectUrls) + 1]
          ELSE /\ attempts' = [attempts EXCEPT ![running] = EnterFallback(@, "failed")]
               /\ UNCHANGED objectUrls
    /\ UNCHANGED <<pc, mounted, fallbackObjectUrlRef, running, exportArgs,
                   viewRest>>

\* The try and finally of downloadPdfFromUrl (lines 166-175) and what the
\* handler does next: the anchor is clicked or a statement throws, the
\* handle is revoked either way.
AnchorClick ==
    /\ running # 0
    /\ attempts[running].st = "anchor"
    /\ objectUrls' = Revoke(objectUrls, attempts[running].handle)
    /\ \E ok \in BOOLEAN :
          /\ attempts' = [attempts EXCEPT ![running] = AfterDownload(@, ok)]
          /\ running' = IF attempts'[running].st = "done" THEN 0 ELSE running
    /\ UNCHANGED <<pc, mounted, fallbackObjectUrlRef, exportArgs, viewRest>>

\* The arguments of createFallbackPdfBlob (lines 626, 628-630, 693-696,
\* 698-700): the text, the citations of the view and the focus label.  The
\* texts are summary and initialPlan in handleDownloadClick,
\* record.summary_text and summary in handleHistoryDownload.
SelectText ==
    /\ running # 0
    /\ attempts[running].st = "text"
    /\ \E s1 \in FirstTexts, s2 \in SecondTexts :
          /\ summaryText' = ExportText(s1, s2)
          /\ attempts' = [attempts EXCEPT ![running].st = "compose",
                                          ![running].src1 = s1,
                                          ![running].src2 = s2]
    /\ citations' = [isArray |-> TRUE, items |-> <<>>]
    /\ focusAspect' = IF attempts[running].handler = "click" THEN JsNull
                      ELSE JsUndefined
    /\ UNCHANGED <<pc, mounted, fallbackObjectUrlRef, objectUrls, running,
                   pdfBytes, viewRest>>

\* const blob = createFallbackPdfBlob(...) (lines 627-631, 697-701); the try
\* block goes on to the stored handle.
Compose ==
    /\ running # 0
    /\ attempts[running].st = "compose"
    /\ pdfBytes' = composePdf(buildContentStream(
                       ExportLines(<<>>, summaryText, citations, focusAspect)))
    /\ UNCHANGED <<summaryText, citations, focusAspect>>
    /\ attempts' = [attempts EXCEPT
                       ![running].st = "revoke",
                       ![running].held =
                           [ref |-> fallbackObjectUrlRef,
                            live |-> fallbackObjectUrlRef # 0
                                       /\ objectUrls[fallbackObjectUrlRef].live]]
    /\ UNCHANGED <<pc, mounted, fallbackObjectUrlRef, objectUrls, running,
                   viewRest>>

\* Lines 632-634, 702-704.
RevokePrevious ==
    /\ running # 0
    /\ attempts[running].st = "revoke"
    /\ objectUrls' = RevokeStored(objectUrls, fallbackObjectUrlRef)
    /\ attempts' = [attempts EXCEPT ![running].st = "create"]
    /\ UNCHANGED <<pc, mounted, fallbackObjectUrlRef, running, exportArgs,
                   viewRest>>

\* const objectUrl = URL.createObjectURL(blob) (lines 635, 705); when it
\* throws the handler catches and returns (lines 643-645, 713-715).
CreateObjectUrl ==
    /\ running # 0
    /\ attempts[running].st = "create"
    /\ \E ok \in BOOLEAN :
          IF ok
          THEN /\ objectUrls' = CreateUrl(objectUrls, "fallback", running)
               /\ attempts' = [attempts EXCEPT ![running].st = "store",
                                               ![running].handle = Len(objectUrls) + 1]
               /\ UNCHANGED <<running, exportArgs>>
          ELSE /\ attempts' = [attempts EXCEPT
                                  ![running] = Finished(@, @.remote, "none")]
               /\ running' = 0
               /\ ArgsCleared
               /\ UNCHANGED objectUrls
    /\ UNCHANGED <<pc, mounted, fallbackObjectUrlRef, viewRest>>

\* fallbackObjectUrlRef.current = objectUrl (lines 636, 706).
StoreRef ==
    /\ running # 0
    /\ attempts[running].st = "store"
    /\ fallbackObjectUrlRef' = attempts[running].handle
    /\ attempts' = [attempts EXCEPT ![running].st = "link"]
    /\ UNCHANGED <<pc, mounted, objectUrls, running, exportArgs, viewRest>>

\* The link is clicked, or a statement throws and the handler catches; the
\* handler returns (lines 637-645, 707-715).
LinkClick ==
    /\ running # 0
    /\ attempts[running].st = "link"
    /\ \E ok \in BOOLEAN :
          attempts' = [attempts EXCEPT
                          ![running] = Finished(@, @.remote,
                                                IF ok THEN "fallback" ELSE "none")]
    /\ running' = 0
    /\ ArgsCleared
    /\ UNCHANGED <<pc, mounted, fallbackObjectUrlRef, objectUrls, viewRest>>

\* The cleanup of the unmount effect (lines 720-728).
Unmount ==
    /\ mounted
    /\ running = 0
    /\ mounted' = FALSE
    /\ objectUrls' = RevokeStored(objectUrls, fallbackObjectUrlRef)
    /\ fallbackObjectUrlRef' = 0
    /\ UNCHANGED <<pc, attempts, running, exportArgs, viewRest>>

NextView ==
    \/ DownloadClick
    \/ HistoryDownload
    \/ RemoteResolved
    \/ RemoteRejected
    \/ CreateBlobUrl
    \/ AnchorClick
    \/ SelectText
    \/ Compose
    \/ RevokePrevious
    \/ CreateObjectUrl
    \/ StoreRef
    \/ LinkClick
    \/ Unmount

SpecView == InitView /\ [][NextView]_vars

---------------------------------------------------------------------------
(* Claims about the download handlers, checked under SpecView *)

\* The handles that are live, and those of them the fallback path created.
LiveUrls == {h \in 1..Len(objectUrls) : objectUrls[h].live}
LiveFallbackUrls == {h \in LiveUrls : objectUrls[h].path = "fallback"}

\* The statement the running attempt is at, "none" when no attempt runs.
RunningSt == IF running = 0 THEN "none" ELSE attempts[running].st

\* C21: when an attempt has finished, no handle it created, in the remote
\* download or in the fallback, is still live.
C21_ReleasedByAttempt ==
    \A h \in 1..Len(objectUrls) :
        attempts[objectUrls[h].by].st = "done" => ~objectUrls[h].live

\* C22: in every state at most one handle created by the fallback is live;
\* none is live when the next one is created, and a live one is the stored
\* one as soon as it has been stored.
C22_OneFallbackHandle ==
    /\ Cardinality(LiveFallbackUrls) <= 1
    /\ RunningSt = "create" => LiveFallbackUrls = {}
    /\ RunningSt # "store" => LiveFallbackUrls \subseteq {fallbackObjectUrlRef}

\* Two attempts awaited their downloads, both downloads failed, and the
\* handle of the first fallback was revoked before the second was created.
C22_Witness ==
    /\ running = 0
    /\ Len(attempts) = 2
    /\ attempts[1].remote = "failed"
    /\ attempts[2].remote = "failed"
    /\ Len(objectUrls) = 2
    /\ objectUrls[1].path = "fallback" /\ ~objectUrls[1].live
    /\ objectUrls[2].path = "fallback" /\ objectUrls[2].live
    /\ fallbackObjectUrlRef = 2

\* C23: once the view is unmounted and every attempt has finished, no handle
\* is live.
C23_NoneLiveAfterTeardown ==
    (/\ ~mounted
     /\ running = 0
     /\ \A a \in 1..Len(attempts) : attempts[a].st = "done")
        => LiveUrls = {}

\* A text that is absent or holds white space only.
NoText(t) == ~Truthy(t) \/ IsBlank(t.chars)

\* C24: the text handed to createFallbackPdfBlob by a handler holds a
\* character that is not white space, and it is "Summary is not available
\* yet." when neither of the two texts of the handler is available.
C24_TextNeverBlank ==
    RunningSt \in {"compose", "revoke", "create", "store", "link"}
        => /\ summaryText.type = "string"
           /\ ~IsBlank(summaryText.chars)
           /\ (NoText(attempts[running].src1) /\ NoText(attempts[running].src2))
                 => summaryText.chars
                      = <<83, 117, 109, 109, 97, 114, 121, 32, 105, 115, 32,
                          110, 111, 116, 32, 97, 118, 97, 105, 108, 97, 98,
                          108, 101, 32, 121, 101, 116, 46>>
           /\ ~NoText(attempts[running].src1)
                 => \E k \in 1..Len(attempts[running].src1.chars) :
                       /\ HoldsAt(attempts[running].src1.chars, k - 1,
                                  summaryText.chars)
                       /\ IsBlank(SubSeq(attempts[running].src1.chars, 1, k - 1))
                       /\ IsBlank(SubSeq(attempts[running].src1.chars,
                                         k + Len(summaryText.chars),
                                         Len(attempts[running].src1.chars)))

\* A handler whose two texts are white space hands over the placeholder.
C24_Witness ==
    /\ RunningSt = "compose"
    /\ attempts[running].src1 = JsString(<<32>>)
    /\ attempts[running].src2 = JsString(<<9>>)
    /\ Len(summaryText.chars) = 29

\* C25: when URL.createObjectURL throws in the fallback, the ref holds what
\* it held when the attempt entered the fallback, that handle is as live
\* as it was then, and the attempt delivers nothing.
C25_FailedCreateKeepsState ==
    [][(RunningSt = "create" /\ attempts'[running].st = "done")
          => LET held == attempts[running].held
             IN  /\ fallbackObjectUrlRef' = held.ref
                 /\ held.ref # 0 => objectUrls'[held.ref].live = held.live
                 /\ attempts'[running].delivered = "none"]_vars

\* C29: between two operations of the view a stored handle is live, and no
\* handle has been revoked twice.
C29_StoredHandleLive ==
    running = 0
        => /\ fallbackObjectUrlRef # 0 => objectUrls[fallbackObjectUrlRef].live
           /\ \A h \in 1..Len(objectUrls) : objectUrls[h].revokes <= 1

\* C30: an attempt is in the fallback only if downloadPdfFromUrl was not
\* called (no URL) or failed; an attempt whose download succeeded has
\* returned with that download and without the fallback; an attempt whose
\* download failed is in the fallback; a document is composed in the
\* fallback only.
C30_FallbackOnlyWhenNeeded ==
    /\ \A a \in 1..Len(attempts) :
          LET t == attempts[a]
          IN  /\ t.fallback => t.remote \in {"none", "failed"}
              /\ t.remote = "ok"
                    => t.st = "done" /\ ~t.fallback /\ t.delivered = "remote"
              /\ t.remote = "failed" => t.fallback
              /\ t.remote = "pending" => ~t.fallback /\ t.st \in {"await", "blob", "anchor"}
              /\ t.remote = "none" => t.fallback
              /\ t.delivered = "fallback" => t.fallback
    /\ pdfBytes # <<>> => (running # 0 /\ attempts[running].fallback)

\* One attempt delivered the server PDF, the other failed to download it and
\* delivered the fallback.
C30_Witness ==
    /\ running = 0
    /\ Len(attempts) = 2
    /\ attempts[1].st = "done" /\ attempts[1].remote = "failed"
    /\ attempts[1].delivered = "fallback"
    /\ attempts[2].st = "done" /\ attempts[2].remote = "ok"
    /\ attempts[2].delivered = "remote"

===========================================================================
